---------------------------- MODULE Spec2Model ----------------------------
(***************************************************************************)
(* Model of DocsRsMcpServer (src/src/index.ts): the CallTool request       *)
(* handler and its four tool methods searchCrates, getReadMe, getItem and  *)
(* searchInCrate.  Each tool method awaits exactly one axios.get; a tool   *)
(* call is therefore two steps: the call up to the await, and the          *)
(* resumption with the upstream's answer.                                  *)
(*                                                                         *)
(* Strings are sequences of tokens.  Text that the program only copies     *)
(* (crate names, versions, literal pieces of templates) is one token; text *)
(* that the program inspects (item paths, hrefs, link texts) is one token  *)
(* per character or per marker word.                                       *)
(***************************************************************************)
EXTENDS Integers, Sequences, FiniteSets, TLC

VARIABLES
    pc,        \* "idle" | "awaiting" | "done": position of the tool call
    call,      \* request.params of the tool call being served: [name, arguments]
    requests,  \* the axios.get calls issued by this tool call, in order
    response,  \* what the awaited axios.get settled with
    thrown,    \* the error the tool method threw into the handler's catch
    result,    \* what the CallTool handler answers: a payload or a McpError
    itemLink,  \* the href under classification in searchInCrate's loop body
    type,      \* the local variable "type" of searchInCrate's loop body
    items,     \* searchInCrate's array items after the each loop
    uniqueItems \* searchInCrate's array uniqueItems

vars == <<pc, call, requests, response, thrown, result, itemLink, type, items, uniqueItems>>

-----------------------------------------------------------------------------
(* Bounds of the model *)

\* longest item_path, in characters, that SpecItemUrl hands to getItem
MaxPathLen == 7
\* longest href, in tokens, that SpecClassify feeds to the classification
MaxHrefLen == 4
\* most links on an index page
MaxLinks == 2
\* most hits in a registry search response
MaxHits == 1

-----------------------------------------------------------------------------
(* String operations of JavaScript, on sequences of tokens *)

\* s.indexOf(sub): the first position (1-based) where sub occurs in s, 0 if none
IndexOf(s, sub) ==
    LET hits == {i \in 1..(Len(s) - Len(sub) + 1) : SubSeq(s, i, i + Len(sub) - 1) = sub}
    IN IF hits = {} THEN 0 ELSE CHOOSE i \in hits : \A j \in hits : i <= j

\* s.includes(sub)
Includes(s, sub) ==
    \E i \in 1..(Len(s) - Len(sub) + 1) : SubSeq(s, i, i + Len(sub) - 1) = sub

\* s.startsWith(pre)
StartsWith(s, pre) == Len(s) >= Len(pre) /\ SubSeq(s, 1, Len(pre)) = pre

\* s.split(sep): the pieces between the successive leftmost occurrences of sep
RECURSIVE Split(_, _)
Split(s, sep) ==
    LET i == IndexOf(s, sep)
    IN IF i = 0 THEN <<s>>
       ELSE <<SubSeq(s, 1, i - 1)>> \o Split(SubSeq(s, i + Len(sep), Len(s)), sep)

\* parts.join(sep)
RECURSIVE Join(_, _)
Join(parts, sep) ==
    IF Len(parts) = 0 THEN <<>>
    ELSE IF Len(parts) = 1 THEN parts[1]
    ELSE parts[1] \o sep \o Join(Tail(parts), sep)

\* s.replaceAll(pat, rep): every successive leftmost occurrence of pat replaced
RECURSIVE ReplaceAll(_, _, _)
ReplaceAll(s, pat, rep) ==
    LET i == IndexOf(s, pat)
    IN IF i = 0 THEN s
       ELSE SubSeq(s, 1, i - 1) \o rep \o ReplaceAll(SubSeq(s, i + Len(pat), Len(s)), pat, rep)

\* parts.pop() of a non-empty array: its last element
Pop(parts) == parts[Len(parts)]

\* parts.slice(0, -1): all but the last element
SliceButLast(parts) == [k \in 1..(Len(parts) - 1) |-> parts[k]]

-----------------------------------------------------------------------------
(* Values *)

NoCall     == [name |-> "none"]
NoResponse == [kind |-> "none"]
NoError    == [name |-> "none"]
NoResult   == [kind |-> "none"]

\* destructuring with a default: const { k = dflt } = args
Arg(args, k, dflt) == IF k \in DOMAIN args THEN args[k] ELSE dflt

\* const { version } = args, the default forgotten: an absent version is undefined
VersionOf_NoDefault(args) == Arg(args, "version", "undefined")

\* const { version = "latest" } = args
VersionOf(args) == Arg(args, "version", "latest")

\* The failures axios.get rejects with: a response status outside 2xx, or no
\* response at all (the connection timed out or was reset).
HttpFailures == {"404", "501", "500"}
NetFailures  == {"ETIMEDOUT", "ECONNRESET"}
Failures     == HttpFailures \cup NetFailures

\* the statuses the specification calls a soft miss
SoftMiss == {"404", "501"}

\* the AxiosError axios.get rejects with
AxiosError(f) ==
    [name |-> "AxiosError",
     message |-> IF f \in HttpFailures
                 THEN <<"Request failed with status code ", f>>
                 ELSE <<f>>]

\* ${error} in a template literal: Error.prototype.toString, "name: message"
ErrorToString(error) == <<error.name, ": ">> \o error.message

\* { content: [{ type: "text", text }] }
Payload(text) == [kind |-> "payload", text |-> text]

\* A cheerio selection is the sequence of inner HTMLs of the matched elements.
\* sel.html() || ""
HtmlOrEmpty(sel) == IF Len(sel) = 0 THEN <<>> ELSE sel[1]

\* turndownService.turndown(html), token by token: a paragraph gives its text,
\* a <pre> gives a fenced code block, an element without text gives nothing.
TurndownToken(t) ==
    CASE t = "<p>main</p>"    -> <<"main">>
      [] t = "<p>doc</p>"     -> <<"doc">>
      [] t = "<pre>decl</pre>" -> <<"[fence rust]", "decl", "[fence]">>
      [] t = "<pre>alt</pre>"  -> <<"[fence rust]", "alt", "[fence]">>
      [] OTHER                -> <<>>

RECURSIVE Turndown(_)
Turndown(html) ==
    IF Len(html) = 0 THEN <<>> ELSE TurndownToken(Head(html)) \o Turndown(Tail(html))

-----------------------------------------------------------------------------
(* The CallTool handler's catch *)

\* new McpError(code, message): the SDK names it "McpError" and prefixes the code
McpError(code, message) ==
    [name |-> "McpError", code |-> code,
     message |-> <<"MCP error ", code, ": ">> \o message]

\* catch (error) { throw new McpError(ErrorCode.InternalError, ...) }
HandlerCatch(name, error) ==
    [kind |-> "error"]
        @@ McpError("InternalError", <<"Error executing tool ", name, ": ">> \o ErrorToString(error))

\* what a tool method hands back to the handler: a payload, or an error thrown
Returned(payload) == [thrown |-> NoError, payload |-> payload]
Threw(error)      == [thrown |-> error, payload |-> NoResult]

\* the handler's answer to what the tool method handed back
HandlerAnswer(name, out) ==
    IF out.thrown = NoError THEN out.payload ELSE HandlerCatch(name, out.thrown)

-----------------------------------------------------------------------------
(* getReadMe *)

\* the overview url in its directory form, the file name left out
ReadMeUrl_Directory(crate_name, version) ==
    <<"https://docs.rs/", crate_name, "/", version, "/", crate_name, "/">>

\* const url = `https://docs.rs/${crate_name}/${version}/${crate_name}/index.html`
ReadMeUrl(crate_name, version) ==
    <<"https://docs.rs/", crate_name, "/", version, "/", crate_name, "/", "index.html">>

\* $(selector).first()
First(sel) == IF Len(sel) = 0 THEN <<>> ELSE <<sel[1]>>

\* the body of getReadMe's try block after a fulfilled axios.get
GetReadMeText(crate_name, url, page) ==
    LET mainContent == First(page.docblock)
        alternativeContent == First(page.altDecl)
    IN IF Len(mainContent) = 0 /\ Len(alternativeContent) = 0
       THEN <<"# ", crate_name, " Documentation\n\n", "No documentation content found at ">> \o url
       ELSE <<"# ", crate_name, " Documentation\n\n">> \o Turndown(HtmlOrEmpty(mainContent))

\* catch (error) { throw new Error(`Failed to get README for ${crate_name}: ${error}`) }
GetReadMeCatch(crate_name, error) ==
    [name |-> "Error",
     message |-> <<"Failed to get README for ", crate_name, ": ">> \o ErrorToString(error)]

\* getReadMe with a 404/501 taken for an empty page: the placeholder, no throw
GetReadMeSettle_SoftMissPlaceholder(args, url, resp) ==
    IF resp.kind = "ok"
    THEN Returned(Payload(GetReadMeText(args.crate_name, url, resp.data)))
    ELSE IF resp.failure \in SoftMiss
    THEN Returned(Payload(<<"# ", args.crate_name, " Documentation\n\n",
                            "No documentation content found at ">> \o url))
    ELSE Threw(GetReadMeCatch(args.crate_name, AxiosError(resp.failure)))

\* getReadMe from the settling of its axios.get to its return or throw
GetReadMeSettle(args, url, resp) ==
    IF resp.kind = "ok"
    THEN Returned(Payload(GetReadMeText(args.crate_name, url, resp.data)))
    ELSE Threw(GetReadMeCatch(args.crate_name, AxiosError(resp.failure)))

-----------------------------------------------------------------------------
(* getItem *)

\* s.replace(pat, rep): the leftmost occurrence of pat alone replaced
Replace(s, pat, rep) ==
    LET i == IndexOf(s, pat)
    IN IF i = 0 THEN s
       ELSE SubSeq(s, 1, i - 1) \o rep \o SubSeq(s, i + Len(pat), Len(s))

\* the url with the module path not cut off the item name (slice forgotten)
ItemUrl_NoSlice(crate_name, version, item_type, item_path) ==
    LET item_name == Pop(Split(item_path, <<":", ":">>))
    IN IF item_type = "module"
       THEN <<"https://docs.rs/", crate_name, "/", version, "/">>
                \o ReplaceAll(item_path, <<":", ":">>, <<"/">>) \o <<"/", "index.html">>
       ELSE LET pathParts == Split(item_path, <<":", ":">>)
                modulePath == Join(pathParts, <<"/">>)
            IN <<"https://docs.rs/", crate_name, "/", version, "/">>
                   \o modulePath \o <<"/", item_type, ".">> \o item_name \o <<".html">>

\* the url with replace in place of replaceAll for a module
ItemUrl_ReplaceFirst(crate_name, version, item_type, item_path) ==
    LET item_name == Pop(Split(item_path, <<":", ":">>))
    IN IF item_type = "module"
       THEN <<"https://docs.rs/", crate_name, "/", version, "/">>
                \o Replace(item_path, <<":", ":">>, <<"/">>) \o <<"/", "index.html">>
       ELSE LET pathParts == Split(item_path, <<":", ":">>)
                modulePath == Join(SliceButLast(pathParts), <<"/">>)
            IN <<"https://docs.rs/", crate_name, "/", version, "/">>
                   \o modulePath \o <<"/", item_type, ".">> \o item_name \o <<".html">>

\* the url getItem builds from its arguments
ItemUrl(crate_name, version, item_type, item_path) ==
    LET item_name == Pop(Split(item_path, <<":", ":">>))
    IN IF item_type = "module"
       THEN <<"https://docs.rs/", crate_name, "/", version, "/">>
                \o ReplaceAll(item_path, <<":", ":">>, <<"/">>) \o <<"/", "index.html">>
       ELSE LET pathParts == Split(item_path, <<":", ":">>)
                modulePath == Join(SliceButLast(pathParts), <<"/">>)
            IN <<"https://docs.rs/", crate_name, "/", version, "/">>
                   \o modulePath \o <<"/", item_type, ".">> \o item_name \o <<".html">>

\* the extraction falling back to the legacy selectors when #main-content is empty
ItemContentHtml_MainIfNonEmpty(page) ==
    LET mainContentSection == page.mainContent
        itemDecl == First(page.itemDecl)
        mainContent == First(page.docblock)
        alternativeContent == First(page.altDecl)
    IN IF HtmlOrEmpty(mainContentSection) # <<>>
       THEN HtmlOrEmpty(mainContentSection)
       ELSE (IF Len(itemDecl) > 0 THEN HtmlOrEmpty(itemDecl) ELSE <<>>)
            \o (IF Len(mainContent) = 0
                THEN (IF Len(alternativeContent) > 0 THEN HtmlOrEmpty(alternativeContent) ELSE <<>>)
                ELSE HtmlOrEmpty(mainContent))

\* the cascade of selectors that fills contentHtml
ItemContentHtml(page) ==
    LET mainContentSection == page.mainContent
        itemDecl == First(page.itemDecl)
        mainContent == First(page.docblock)
        alternativeContent == First(page.altDecl)
    IN IF Len(mainContentSection) > 0
       THEN HtmlOrEmpty(mainContentSection)
       ELSE (IF Len(itemDecl) > 0 THEN HtmlOrEmpty(itemDecl) ELSE <<>>)
            \o (IF Len(mainContent) = 0
                THEN (IF Len(alternativeContent) > 0 THEN HtmlOrEmpty(alternativeContent) ELSE <<>>)
                ELSE HtmlOrEmpty(mainContent))

\* the text naming the item's path under the host instead of the url fetched
GetItemText_ShowsPath(item_path, item_type, url, page) ==
    LET contentHtml == ItemContentHtml(page)
        shown == <<"https://docs.rs/">> \o item_path
    IN IF contentHtml = <<>>
       THEN <<"# ">> \o item_path \o <<" (", item_type, ")\n\n", "No documentation content found at ">> \o shown
       ELSE <<"# ">> \o item_path \o <<" (", item_type, ")\n\n", "**Documentation URL:** ">> \o shown
                \o <<"\n\n">> \o Turndown(contentHtml)

\* the body of getItem's try block after a fulfilled axios.get
GetItemText(item_path, item_type, url, page) ==
    LET contentHtml == ItemContentHtml(page)
    IN IF contentHtml = <<>>
       THEN <<"# ">> \o item_path \o <<" (", item_type, ")\n\n", "No documentation content found at ">> \o url
       ELSE <<"# ">> \o item_path \o <<" (", item_type, ")\n\n", "**Documentation URL:** ">> \o url
                \o <<"\n\n">> \o Turndown(contentHtml)

\* catch (error) { throw new Error(`Failed to get item documentation for ${fullItemName}: ${error}`) }
GetItemCatch(item_path, error) ==
    [name |-> "Error",
     message |-> <<"Failed to get item documentation for ">> \o item_path \o <<": ">>
                     \o ErrorToString(error)]

\* item_path.split("::") on an absent item_path, before the try block
SplitOfUndefined ==
    [name |-> "TypeError",
     message |-> <<"Cannot read properties of undefined (reading 'split')">>]

\* getItem with a catch that answers every failed fetch with the placeholder
GetItemSettle_CatchAll(args, url, resp) ==
    IF resp.kind = "ok"
    THEN Returned(Payload(GetItemText(args.item_path, args.item_type, url, resp.data)))
    ELSE Returned(Payload(<<"# ">> \o args.item_path \o <<" (", args.item_type, ")\n\n",
                            "No documentation content found at ">> \o url))

\* getItem from the settling of its axios.get to its return or throw
GetItemSettle(args, url, resp) ==
    IF resp.kind = "ok"
    THEN Returned(Payload(GetItemText(args.item_path, args.item_type, url, resp.data)))
    ELSE Threw(GetItemCatch(args.item_path, AxiosError(resp.failure)))

-----------------------------------------------------------------------------
(* searchInCrate *)

\* the index url pointing at the crate's front page instead of its list of items
AllItemsUrl_Index(crate_name, version) ==
    <<"https://docs.rs/", crate_name, "/", version, "/", crate_name, "/", "index.html">>

\* const url = `https://docs.rs/${crate_name}/${version}/${crate_name}/all.html`
AllItemsUrl(crate_name, version) ==
    <<"https://docs.rs/", crate_name, "/", version, "/", crate_name, "/", "all.html">>

\* s.trim(): leading and trailing white space removed
RECURSIVE TrimLeft(_)
TrimLeft(s) == IF Len(s) > 0 /\ Head(s) = " " THEN TrimLeft(Tail(s)) ELSE s

RECURSIVE TrimRight(_)
TrimRight(s) ==
    IF Len(s) > 0 /\ s[Len(s)] = " " THEN TrimRight(SubSeq(s, 1, Len(s) - 1)) ELSE s

Trim(s) == TrimRight(TrimLeft(s))

\* toLowerCase of one token
LowerToken(t) ==
    CASE t = "Hash"   -> "hash"
      [] t = "HASH"   -> "hash"
      [] t = "Map"    -> "map"
      [] t = "Fn"     -> "fn"
      [] t = "Struct" -> "struct"
      [] OTHER        -> t

\* s.toLowerCase()
ToLowerCase(s) == [i \in 1..Len(s) |-> LowerToken(s[i])]

\* the chain with the fn. test moved ahead of the struct. test
ClassifyLink_FnFirst(href) ==
    IF Includes(href, <<"fn", ".">>) THEN "function"
    ELSE IF Includes(href, <<"struct", ".">>) THEN "struct"
    ELSE IF Includes(href, <<"trait", ".">>) THEN "trait"
    ELSE IF Includes(href, <<"enum", ".">>) THEN "enum"
    ELSE IF Includes(href, <<"type", ".">>) THEN "type"
    ELSE IF Includes(href, <<"const", ".">>) THEN "constant"
    ELSE IF Includes(href, <<"static", ".">>) THEN "static"
    ELSE IF Includes(href, <<"macro", ".">>) THEN "macro"
    ELSE "unknown"

\* the if / else-if chain that sets the local variable type from the href
ClassifyLink(href) ==
    IF Includes(href, <<"struct", ".">>) THEN "struct"
    ELSE IF Includes(href, <<"trait", ".">>) THEN "trait"
    ELSE IF Includes(href, <<"fn", ".">>) THEN "function"
    ELSE IF Includes(href, <<"enum", ".">>) THEN "enum"
    ELSE IF Includes(href, <<"type", ".">>) THEN "type"
    ELSE IF Includes(href, <<"const", ".">>) THEN "constant"
    ELSE IF Includes(href, <<"static", ".">>) THEN "static"
    ELSE IF Includes(href, <<"macro", ".">>) THEN "macro"
    ELSE "unknown"

\* !s || s == "" for an optional string argument
Unset(args, k) == k \notin DOMAIN args \/ args[k] = <<>>

\* the callback comparing the name with the query as written, case and all
ItemsOfLink_CaseSensitive(link, args) ==
    LET crate_name == args.crate_name
        version == VersionOf(args)
        itemName == Trim(link.text)
        href == IF "href" \in DOMAIN link THEN link.href ELSE <<>>
        kind == ClassifyLink(href)
        matchesQuery == Unset(args, "query") \/ Includes(itemName, args.query)
        matchesType ==
            \/ Unset(args, "item_type")
            \/ <<kind>> = args.item_type
            \/ Includes(itemName, args.item_type)
    IN IF itemName = <<>> \/ href = <<>> THEN <<>>
       ELSE IF matchesQuery /\ matchesType /\ kind # "unknown"
       THEN << [name |-> itemName, type |-> kind,
                link |-> IF StartsWith(href, <<"http">>)
                         THEN href
                         ELSE <<"https://docs.rs/", crate_name, "/", version, "/", crate_name, "/">>
                                  \o href] >>
       ELSE <<>>

\* the callback without its guard on an empty name or href
ItemsOfLink_NoGuard(link, args) ==
    LET crate_name == args.crate_name
        version == VersionOf(args)
        itemName == Trim(link.text)
        href == IF "href" \in DOMAIN link THEN link.href ELSE <<>>
        kind == ClassifyLink(href)
        matchesQuery ==
            Unset(args, "query") \/ Includes(ToLowerCase(itemName), ToLowerCase(args.query))
        matchesType ==
            \/ Unset(args, "item_type")
            \/ <<kind>> = args.item_type
            \/ Includes(ToLowerCase(itemName), ToLowerCase(args.item_type))
    IN IF matchesQuery /\ matchesType /\ kind # "unknown"
       THEN << [name |-> itemName, type |-> kind,
                link |-> IF StartsWith(href, <<"http">>)
                         THEN href
                         ELSE <<"https://docs.rs/", crate_name, "/", version, "/", crate_name, "/">>
                                  \o href] >>
       ELSE <<>>

\* the callback of $("#main-content a").each: the items it pushes for one link
ItemsOfLink(link, args) ==
    LET crate_name == args.crate_name
        version == VersionOf(args)
        itemName == Trim(link.text)
        href == IF "href" \in DOMAIN link THEN link.href ELSE <<>>
        kind == ClassifyLink(href)
        matchesQuery ==
            Unset(args, "query") \/ Includes(ToLowerCase(itemName), ToLowerCase(args.query))
        matchesType ==
            \/ Unset(args, "item_type")
            \/ <<kind>> = args.item_type
            \/ Includes(ToLowerCase(itemName), ToLowerCase(args.item_type))
    IN IF itemName = <<>> \/ href = <<>> THEN <<>>
       ELSE IF matchesQuery /\ matchesType /\ kind # "unknown"
       THEN << [name |-> itemName, type |-> kind,
                link |-> IF StartsWith(href, <<"http">>)
                         THEN href
                         ELSE <<"https://docs.rs/", crate_name, "/", version, "/", crate_name, "/">>
                                  \o href] >>
       ELSE <<>>

\* the items array after the each loop
RECURSIVE ScanLinks(_, _)
ScanLinks(links, args) ==
    IF Len(links) = 0 THEN <<>>
    ELSE ItemsOfLink(Head(links), args) \o ScanLinks(Tail(links), args)

\* self.findIndex(i => i.name === item.name && i.type === item.type), 1-based
FindIndex(self, item) ==
    CHOOSE k \in 1..Len(self) :
        /\ self[k].name = item.name /\ self[k].type = item.type
        /\ \A j \in 1..(k - 1) : ~(self[j].name = item.name /\ self[j].type = item.type)

\* items.filter(pred), pred given as the set of indexes to keep
RECURSIVE FilterIdx(_, _, _)
FilterIdx(self, keep, k) ==
    IF k > Len(self) THEN <<>>
    ELSE (IF k \in keep THEN <<self[k]>> ELSE <<>>) \o FilterIdx(self, keep, k + 1)

\* the filter keeping the last record of each (name, type) instead of the first
UniqueItems_KeepLast(self) ==
    FilterIdx(self,
              {k \in 1..Len(self) :
                  \A j \in (k + 1)..Len(self) :
                      ~(self[j].name = self[k].name /\ self[j].type = self[k].type)}, 1)

\* items.filter((item, index, self) => index === self.findIndex(...))
UniqueItems(self) ==
    FilterIdx(self, {k \in 1..Len(self) : k = FindIndex(self, self[k])}, 1)

\* one entry of the result list
RenderItem(item) ==
    <<"## ">> \o item.name \o <<" (", item.type, ")\n\n", "**Description:** ", item.type, "\n\n",
      "**Link:** [View Documentation](">> \o item.link \o <<")\n\n", "---\n">>

\* uniqueItems.map(render).join("\n")
RECURSIVE RenderItems(_)
RenderItems(self) ==
    IF Len(self) = 0 THEN <<>>
    ELSE IF Len(self) = 1 THEN RenderItem(self[1])
    ELSE RenderItem(self[1]) \o <<"\n">> \o RenderItems(Tail(self))

\* the text counting the records before deduplication
SearchInCrateText_CountsRetained(args, page) ==
    LET retained == ScanLinks(page.links, args)
        unique == UniqueItems(retained)
        searchTerm == IF Unset(args, "query") THEN <<"all items">> ELSE args.query
    IN <<"# Search Results for \"">> \o searchTerm \o <<"\" in ", args.crate_name, "\n\n",
         "Found ", ToString(Len(retained)), " items\n\n">>
         \o (IF Len(unique) = 0 THEN <<"No matching items found.">>
             ELSE RenderItems(unique))

\* the body of searchInCrate's try block after a fulfilled axios.get
SearchInCrateText(args, page) ==
    LET unique == UniqueItems(ScanLinks(page.links, args))
        searchTerm == IF Unset(args, "query") THEN <<"all items">> ELSE args.query
    IN <<"# Search Results for \"">> \o searchTerm \o <<"\" in ", args.crate_name, "\n\n",
         "Found ", ToString(Len(unique)), " items\n\n">>
         \o (IF Len(unique) = 0 THEN <<"No matching items found.">>
             ELSE RenderItems(unique))

\* searchInCrate's catch raising a typed not-found error that names no cause
SearchInCrateCatch_NotFound(crate_name, error) ==
    [name |-> "DocumentNotFoundError",
     message |-> <<"No documentation found for ", crate_name>>]

\* catch (error) { throw new Error(`Failed to search items in ${crate_name}: ${error}`) }
SearchInCrateCatch(crate_name, error) ==
    [name |-> "Error",
     message |-> <<"Failed to search items in ", crate_name, ": ">> \o ErrorToString(error)]

\* searchInCrate from the settling of its axios.get to its return or throw
SearchInCrateSettle(args, resp) ==
    IF resp.kind = "ok"
    THEN Returned(Payload(SearchInCrateText(args, resp.data)))
    ELSE Threw(SearchInCrateCatch(args.crate_name, AxiosError(resp.failure)))

-----------------------------------------------------------------------------
(* searchCrates *)

\* Math.min(per_page, 100)
MathMin(a, b) == IF a < b THEN a ELSE b

\* the params with per_page sent as the caller gave it
SearchCratesParams_Unclamped(args) ==
    [q |-> args.query,
     per_page |-> Arg(args, "per_page", 10),
     sort |-> Arg(args, "sort", "relevance")]

\* the params of the registry request
SearchCratesParams(args) ==
    [q |-> args.query,
     per_page |-> MathMin(Arg(args, "per_page", 10), 100),
     sort |-> Arg(args, "sort", "relevance")]

\* three digits of a group after the first, zero padded
Group3(n) ==
    (IF n < 100 THEN <<"0">> ELSE <<>>) \o (IF n < 10 THEN <<"0">> ELSE <<>>) \o <<ToString(n)>>

\* n.toLocaleString() of a non-negative integer: groups of three digits
RECURSIVE ToLocaleString(_)
ToLocaleString(n) ==
    IF n < 1000 THEN <<ToString(n)>>
    ELSE ToLocaleString(n \div 1000) \o <<",">> \o Group3(n % 1000)

\* the mapping with description: crate.description, no placeholder
CrateSearchResult_NoPlaceholder(crate) ==
    [name |-> crate.name,
     description |-> Arg(crate, "description", <<"undefined">>),
     downloads |-> crate.downloads,
     version |-> crate.newest_version,
     documentation |-> Arg(crate, "documentation", <<>>)]

\* response.data.crates.map(...): one hit as a CrateSearchResult
CrateSearchResult(crate) ==
    [name |-> crate.name,
     description |-> IF "description" \notin DOMAIN crate \/ crate.description = <<>>
                     THEN <<"No description available">>
                     ELSE crate.description,
     downloads |-> crate.downloads,
     version |-> crate.newest_version,
     documentation |-> Arg(crate, "documentation", <<>>)]

\* one entry of the result list
RenderCrate(crate) ==
    <<"## ", crate.name, " (", crate.version, ")\n\n", "**Description:** ">> \o crate.description
      \o <<"\n\n", "**Downloads:** ">> \o ToLocaleString(crate.downloads)
      \o <<"\n\n", "**Documentation:** ">>
      \o (IF crate.documentation = <<>> THEN <<"N/A">> ELSE crate.documentation)
      \o <<"\n\n---\n">>

\* crates.map(render).join("\n")
RECURSIVE RenderCrates(_)
RenderCrates(crates) ==
    IF Len(crates) = 0 THEN <<>>
    ELSE IF Len(crates) = 1 THEN RenderCrate(CrateSearchResult(crates[1]))
    ELSE RenderCrate(CrateSearchResult(crates[1])) \o <<"\n">> \o RenderCrates(Tail(crates))

\* the body of searchCrates' try block after a fulfilled axios.get
SearchCratesText(args, data) ==
    <<"# Crate Search Results for \"", args.query, "\"\n\n">> \o RenderCrates(data.crates)

\* catch (error) { throw new Error(`Failed to search crates: ${error}`) }
SearchCratesCatch(error) ==
    [name |-> "Error", message |-> <<"Failed to search crates: ">> \o ErrorToString(error)]

\* searchCrates from the settling of its axios.get to its return or throw
SearchCratesSettle(args, resp) ==
    IF resp.kind = "ok"
    THEN Returned(Payload(SearchCratesText(args, resp.data)))
    ELSE Threw(SearchCratesCatch(AxiosError(resp.failure)))

-----------------------------------------------------------------------------
(* Inputs: the arguments callers send and the answers upstreams give *)

\* all sequences over S of length at most n
SeqsUpTo(S, n) == UNION {[1..k -> S] : k \in 0..n}

Crates   == {"serde", "tokio"}
Versions == {"latest", "1.0.0"}

\* with and without the optional version
WithVersion(base) == base \cup {a @@ [version |-> v] : a \in base, v \in Versions}

ReadMeArgs == WithVersion([crate_name : Crates])

ItemTypes == {"module", "struct", "fn"}
ItemPaths == { <<"a">>, <<"a", ":", ":", "b">>, <<"a", ":", ":", "b", ":", ":", "c">> }

\* item_path is required by the input schema, which nothing enforces
GetItemArgs ==
    WithVersion([crate_name : Crates, item_type : ItemTypes, item_path : ItemPaths]
                    \cup [crate_name : {"serde"}, item_type : {"struct"}])

\* the arguments SpecItemUrl hands to getItem: every item_path up to MaxPathLen
PathChars == {"a", "b", ":"}
WideItemArgs ==
    [crate_name : {"serde"}, item_type : {"module", "struct", "fn"},
     item_path : SeqsUpTo(PathChars, MaxPathLen), version : {"1.0.0"}]

Queries     == { <<>>, <<"hash", "map">>, <<"HASH">> }
TypeFilters == { <<>>, <<"struct">>, <<"fn">> }
SearchInCrateArgs ==
    LET base == [crate_name : {"serde"}]
        q    == base \cup {a @@ [query |-> x] : a \in base, x \in Queries}
        t    == q \cup {a @@ [item_type |-> x] : a \in q, x \in TypeFilters}
    IN t \cup {a @@ [version |-> "1.0.0"] : a \in t}

PerPages == {0 - 1, 0, 50, 100, 150}
Sorts    == {"downloads", "bogus"}
SearchCratesArgs ==
    LET base == [query : {"async runtime"}]
        p    == base \cup {a @@ [per_page |-> x] : a \in base, x \in PerPages}
    IN p \cup {a @@ [sort |-> x] : a \in p, x \in Sorts}

\* a page of the documentation host, as the selections the tools make on it
Selections(html) == { <<>>, << <<>> >>, <<html>> }
DocPages ==
    [mainContent : Selections(<<"<p>main</p>">>),
     itemDecl    : Selections(<<"<pre>decl</pre>">>),
     docblock    : Selections(<<"<p>doc</p>">>) \cup { << <<"<div></div>">> >> },
     altDecl     : Selections(<<"<pre>alt</pre>">>),
     links       : { <<>> }]

\* the overview page of a crate: no #main-content wrapper is looked for
OverviewPages == {p \in DocPages : p.mainContent = <<>> /\ p.itemDecl = <<>>}

Links ==
    { [text |-> <<"Hash", "Map">>, href |-> <<"struct", ".", "HashMap", ".html">>],
      [text |-> <<"Hash", "Map">>, href |-> <<"http", "://", "struct", ".", "HashMap", ".html">>],
      [text |-> <<" ", "Fn", "Once", " ">>, href |-> <<"ops", "/", "trait", ".", "FnOnce", ".html">>],
      [text |-> <<"map">>, href |-> <<"fn", ".", "map", ".html">>],
      [text |-> <<"sync">>, href |-> <<"sync", "/", "index.html">>],
      [text |-> <<" ">>, href |-> <<"struct", ".", "S", ".html">>],
      [text |-> <<"map">>],
      [text |-> <<"map">>, href |-> <<>>],
      [text |-> <<"map">>, href |-> <<" ">>],
      [text |-> <<"map">>, href |-> <<"macro", ".", "map", ".html">>],
      [text |-> <<"Request">>, href |-> <<"http", "/", "struct", ".", "Request", ".html">>] }

IndexPages ==
    [mainContent : { << <<"<p>main</p>">> >> }, itemDecl : { <<>> }, docblock : { <<>> },
     altDecl : { <<>> }, links : SeqsUpTo(Links, MaxLinks)]

Hits ==
    LET base == [name : {"tokio"}, downloads : {0, 1234567}, newest_version : {"1.0.0"}]
        d    == base \cup {h @@ [description |-> x] : h \in base, x \in { <<>>, <<"A runtime">> }}
    IN d \cup {h @@ [documentation |-> <<"https://docs.rs/tokio">>] : h \in d}

RegistryData == [crates : SeqsUpTo(Hits, MaxHits)]

Fulfilled(data) == [kind |-> "ok", data |-> data]
Rejected(f)     == [kind |-> "failed", failure |-> f]

Rejections == {Rejected(f) : f \in Failures}

-----------------------------------------------------------------------------
(* The tool call as a state machine *)

Init ==
    /\ pc = "idle"
    /\ call = NoCall
    /\ requests = <<>>
    /\ response = NoResponse
    /\ thrown = NoError
    /\ result = NoResult
    /\ itemLink = <<>>
    /\ type = "unknown"
    /\ items = <<>>
    /\ uniqueItems = <<>>

\* the tool method sending the request and a second candidate without awaiting the first
Await_BothCandidates(name, args, request) ==
    /\ pc = "idle"
    /\ pc' = "awaiting"
    /\ call' = [name |-> name, arguments |-> args]
    /\ requests' = requests \o <<request, [url |-> request.url \o <<"index.html">>]>>
    /\ UNCHANGED <<response, thrown, result, itemLink, type, items, uniqueItems>>

\* the tool method sending its request twice
Await_Twice(name, args, request) ==
    /\ pc = "idle"
    /\ pc' = "awaiting"
    /\ call' = [name |-> name, arguments |-> args]
    /\ requests' = requests \o <<request, request>>
    /\ UNCHANGED <<response, thrown, result, itemLink, type, items, uniqueItems>>

\* a tool method runs up to its await of axios.get(url)
Await(name, args, request) ==
    /\ pc = "idle"
    /\ pc' = "awaiting"
    /\ call' = [name |-> name, arguments |-> args]
    /\ requests' = Append(requests, request)
    /\ UNCHANGED <<response, thrown, result, itemLink, type, items, uniqueItems>>

\* the await ended by a request timer: no answer has come, the call fails
Settle_OnTimer(resp, out) ==
    /\ pc = "awaiting"
    /\ pc' = "done"
    /\ thrown' = [name |-> "AxiosError", message |-> <<"timeout of 10000ms exceeded">>]
    /\ result' = HandlerCatch(call.name, thrown')
    /\ UNCHANGED <<call, requests, response, itemLink, type>>

\* the awaited axios.get settles and the tool call runs to its end
Settle(resp, out) ==
    /\ pc = "awaiting"
    /\ pc' = "done"
    /\ response' = resp
    /\ thrown' = out.thrown
    /\ result' = HandlerAnswer(call.name, out)
    /\ UNCHANGED <<call, requests, itemLink, type>>

\* a tool call that ends before any await
Fail(name, args, error) ==
    /\ pc = "idle"
    /\ pc' = "done"
    /\ call' = [name |-> name, arguments |-> args]
    /\ thrown' = error
    /\ result' = HandlerCatch(name, error)
    /\ UNCHANGED <<requests, response, itemLink, type, items, uniqueItems>>

searchCrates(args) ==
    /\ pc = "idle"
    /\ Await("docs_rs_search_crates", args,
          [url |-> <<"https://crates.io/api/v1/crates">>, params |-> SearchCratesParams(args)])

searchCratesResume(resp) ==
    /\ call.name = "docs_rs_search_crates"
    /\ Settle(resp, SearchCratesSettle(call.arguments, resp))
    /\ UNCHANGED <<items, uniqueItems>>

getReadMe(args) ==
    /\ pc = "idle"
    /\ Await("docs_rs_readme", args, [url |-> ReadMeUrl(args.crate_name, VersionOf(args))])

getReadMeResume(resp) ==
    /\ call.name = "docs_rs_readme"
    /\ Settle(resp, GetReadMeSettle(call.arguments, requests[1].url, resp))
    /\ UNCHANGED <<items, uniqueItems>>

getItem(args) ==
    /\ pc = "idle"
    /\ IF "item_path" \in DOMAIN args
       THEN Await("docs_rs_get_item", args,
                  [url |-> ItemUrl(args.crate_name, VersionOf(args), args.item_type,
                                   args.item_path)])
       ELSE Fail("docs_rs_get_item", args, SplitOfUndefined)

getItemResume(resp) ==
    /\ call.name = "docs_rs_get_item"
    /\ Settle(resp, GetItemSettle(call.arguments, requests[1].url, resp))
    /\ UNCHANGED <<items, uniqueItems>>

searchInCrate(args) ==
    /\ pc = "idle"
    /\ Await("docs_rs_search_in_crate", args,
          [url |-> AllItemsUrl(args.crate_name, VersionOf(args))])

searchInCrateResume(resp) ==
    /\ call.name = "docs_rs_search_in_crate"
    /\ Settle(resp, SearchInCrateSettle(call.arguments, resp))
    /\ items' = (IF resp.kind = "ok" THEN ScanLinks(resp.data.links, call.arguments) ELSE <<>>)
    /\ uniqueItems' = UniqueItems(items')

\* default: throw new McpError(ErrorCode.MethodNotFound, ...), inside the try
unknownTool(name) ==
    /\ pc = "idle"
    /\ Fail(name, [query |-> "x"], McpError("MethodNotFound", <<"Unknown tool: ", name>>))

\* the answer is handed to the transport; the server serves the next call
Answered ==
    /\ pc = "done"
    /\ pc' = "idle"
    /\ call' = NoCall
    /\ requests' = <<>>
    /\ response' = NoResponse
    /\ thrown' = NoError
    /\ result' = NoResult
    /\ items' = <<>>
    /\ uniqueItems' = <<>>
    /\ UNCHANGED <<itemLink, type>>

Next ==
    \/ \E args \in SearchCratesArgs : searchCrates(args)
    \/ \E resp \in {Fulfilled(d) : d \in RegistryData} \cup Rejections : searchCratesResume(resp)
    \/ \E args \in ReadMeArgs : getReadMe(args)
    \/ \E resp \in {Fulfilled(p) : p \in OverviewPages} \cup Rejections : getReadMeResume(resp)
    \/ \E args \in GetItemArgs : getItem(args)
    \/ \E resp \in {Fulfilled(p) : p \in DocPages} \cup Rejections : getItemResume(resp)
    \/ \E args \in SearchInCrateArgs : searchInCrate(args)
    \/ \E resp \in {Fulfilled(p) : p \in IndexPages} \cup Rejections : searchInCrateResume(resp)
    \/ \E name \in {"docs_rs_get_versions"} : unknownTool(name)
    \/ Answered

Spec == Init /\ [][Next]_vars

\* The server with the scheduling the runtime gives it: an answer that is
\* ready is handed to the transport.  Whether and when an upstream answers is
\* not the server's to decide, so no fairness is stated for the resumptions.
SpecFair == Spec /\ WF_vars(Answered)

\* getItem alone, on every item_path up to MaxPathLen
NextItemUrl == \E args \in WideItemArgs : getItem(args)

SpecItemUrl == Init /\ [][NextItemUrl]_vars

\* searchInCrate's loop body at one link: type starts "unknown" and the
\* if / else-if chain sets it from the href
HrefTokens == {"struct", "trait", "fn", "enum", "type", "const", "static", "macro", "."}

InitClassify ==
    /\ pc = "each"
    /\ call = NoCall
    /\ requests = <<>>
    /\ response = NoResponse
    /\ thrown = NoError
    /\ result = NoResult
    /\ itemLink \in SeqsUpTo(HrefTokens, MaxHrefLen)
    /\ type = "unknown"
    /\ items = <<>>
    /\ uniqueItems = <<>>

classify ==
    /\ pc = "each"
    /\ pc' = "classified"
    /\ type' = ClassifyLink(itemLink)
    /\ UNCHANGED <<call, requests, response, thrown, result, itemLink, items, uniqueItems>>

SpecClassify == InitClassify /\ [][classify]_vars

-----------------------------------------------------------------------------
(* Several tool calls in flight.  The handler is an async function: while    *)
(* one call is suspended at its await the server takes the next request.     *)
(* Every variable then holds one value per invocation, as the locals of one  *)
(* activation of the handler and of its tool method; the server object has   *)
(* no field that a tool call writes.                                         *)

MaxInvocations == 2

Invocations == 1..MaxInvocations

\* the switch of the handler up to the tool method's axios.get: the request issued
RequestOf(name, args) ==
    CASE name = "docs_rs_search_crates" ->
             [url |-> <<"https://crates.io/api/v1/crates">>, params |-> SearchCratesParams(args)]
      [] name = "docs_rs_readme" -> [url |-> ReadMeUrl(args.crate_name, VersionOf(args))]
      [] name = "docs_rs_get_item" ->
             [url |-> ItemUrl(args.crate_name, VersionOf(args), args.item_type, args.item_path)]
      [] name = "docs_rs_search_in_crate" ->
             [url |-> AllItemsUrl(args.crate_name, VersionOf(args))]

\* the tool method from the settling of its axios.get on, by tool name
SettleOf(name, args, url, resp) ==
    CASE name = "docs_rs_search_crates" -> SearchCratesSettle(args, resp)
      [] name = "docs_rs_readme" -> GetReadMeSettle(args, url, resp)
      [] name = "docs_rs_get_item" -> GetItemSettle(args, url, resp)
      [] name = "docs_rs_search_in_crate" -> SearchInCrateSettle(args, resp)

\* a url variable that the invocations share: the one of the highest invocation in flight
UrlOf_Shared(i) ==
    requests[CHOOSE j \in Invocations :
                 /\ Len(requests[j]) > 0
                 /\ \A k \in Invocations : Len(requests[k]) > 0 => k <= j][1].url

\* const url of invocation i's activation of the tool method
UrlOf(i) == requests[i][1].url

\* an answer that carries the number of the invocation that made it
AnswerOf_Numbered(i, resp) ==
    LET a == HandlerAnswer(call[i].name,
                           SettleOf(call[i].name, call[i].arguments, UrlOf(i), resp))
    IN IF a.kind = "payload" THEN Payload(a.text \o <<"\n\n", "request ", ToString(i)>>) ELSE a

\* what the handler answers for invocation i when its axios.get settles with resp
AnswerOf(i, resp) ==
    HandlerAnswer(call[i].name, SettleOf(call[i].name, call[i].arguments, UrlOf(i), resp))

BlankPage ==
    [mainContent |-> <<>>, itemDecl |-> <<>>, docblock |-> <<>>, altDecl |-> <<>>, links |-> <<>>]

SomePage ==
    [mainContent |-> << <<"<p>main</p>">> >>, itemDecl |-> <<>>,
     docblock |-> << <<"<p>doc</p>">> >>, altDecl |-> <<>>,
     links |-> << [text |-> <<"Hash", "Map">>, href |-> <<"struct", ".", "HashMap", ".html">>] >>]

\* the tool calls that are made concurrently
InterleavedCalls ==
    { [name |-> "docs_rs_search_crates", arguments |-> [query |-> "async runtime"]],
      [name |-> "docs_rs_readme", arguments |-> [crate_name |-> "serde"]],
      [name |-> "docs_rs_readme", arguments |-> [crate_name |-> "tokio"]],
      [name |-> "docs_rs_get_item",
       arguments |-> [crate_name |-> "serde", item_type |-> "struct",
                      item_path |-> <<"a", ":", ":", "b">>]],
      [name |-> "docs_rs_search_in_crate", arguments |-> [crate_name |-> "serde"]] }

\* what the upstream of a tool may answer
InterleavedResponses(name) ==
    IF name = "docs_rs_search_crates"
    THEN { Fulfilled([crates |-> <<>>]),
           Fulfilled([crates |-> << [name |-> "tokio", downloads |-> 0,
                                     newest_version |-> "1.0.0"] >>]),
           Rejected("500") }
    ELSE { Fulfilled(BlankPage), Fulfilled(SomePage), Rejected("404") }

InitInterleaved ==
    /\ pc = [i \in Invocations |-> "idle"]
    /\ call = [i \in Invocations |-> NoCall]
    /\ requests = [i \in Invocations |-> <<>>]
    /\ response = [i \in Invocations |-> NoResponse]
    /\ thrown = [i \in Invocations |-> NoError]
    /\ result = [i \in Invocations |-> NoResult]
    /\ itemLink = <<>>
    /\ type = "unknown"
    /\ items = [i \in Invocations |-> <<>>]
    /\ uniqueItems = [i \in Invocations |-> <<>>]

\* invocation i runs from the handler's switch to its await of axios.get
invoke(i, c) ==
    /\ pc[i] = "idle"
    /\ pc' = [pc EXCEPT ![i] = "awaiting"]
    /\ call' = [call EXCEPT ![i] = c]
    /\ requests' = [requests EXCEPT ![i] = <<RequestOf(c.name, c.arguments)>>]
    /\ UNCHANGED <<response, thrown, result, itemLink, type, items, uniqueItems>>

\* invocation i's axios.get settles and the invocation runs to its end
resume(i, resp) ==
    /\ pc[i] = "awaiting"
    /\ pc' = [pc EXCEPT ![i] = "done"]
    /\ response' = [response EXCEPT ![i] = resp]
    /\ thrown' = [thrown EXCEPT ![i] =
                     SettleOf(call[i].name, call[i].arguments, UrlOf(i), resp).thrown]
    /\ result' = [result EXCEPT ![i] = AnswerOf(i, resp)]
    /\ items' = [items EXCEPT ![i] =
                    IF call[i].name = "docs_rs_search_in_crate" /\ resp.kind = "ok"
                    THEN ScanLinks(resp.data.links, call[i].arguments) ELSE <<>>]
    /\ uniqueItems' = [uniqueItems EXCEPT ![i] = UniqueItems(items'[i])]
    /\ UNCHANGED <<call, requests, itemLink, type>>

\* invocation i's answer is handed to the transport; its activation is gone
respond(i) ==
    /\ pc[i] = "done"
    /\ pc' = [pc EXCEPT ![i] = "idle"]
    /\ call' = [call EXCEPT ![i] = NoCall]
    /\ requests' = [requests EXCEPT ![i] = <<>>]
    /\ response' = [response EXCEPT ![i] = NoResponse]
    /\ thrown' = [thrown EXCEPT ![i] = NoError]
    /\ result' = [result EXCEPT ![i] = NoResult]
    /\ items' = [items EXCEPT ![i] = <<>>]
    /\ uniqueItems' = [uniqueItems EXCEPT ![i] = <<>>]
    /\ UNCHANGED <<itemLink, type>>

NextInterleaved ==
    \/ \E i \in Invocations : \E c \in InterleavedCalls : invoke(i, c)
    \/ \E i \in Invocations : \E resp \in InterleavedResponses(call[i].name) : resume(i, resp)
    \/ \E i \in Invocations : respond(i)

SpecInterleaved == InitInterleaved /\ [][NextInterleaved]_vars

-----------------------------------------------------------------------------
(* Vocabulary of the claims *)

DocsTools == {"docs_rs_readme", "docs_rs_get_item", "docs_rs_search_in_crate"}

\* the tool call has ended (the handler has its answer)
Done == pc = "done"

\* the tool call's axios.get was rejected / rejected with 404 or 501 / fulfilled
FetchFailed  == response.kind = "failed"
SoftMissed   == FetchFailed /\ response.failure \in SoftMiss
FatalFailed  == FetchFailed /\ response.failure \notin SoftMiss
FetchSucceeded == response.kind = "ok"

\* s ends with suffix
EndsWith(s, suffix) ==
    Len(s) >= Len(suffix) /\ SubSeq(s, Len(s) - Len(suffix) + 1, Len(s)) = suffix

\* the tokens of a string
Tokens(s) == {s[i] : i \in 1..Len(s)}

\* the text of the failure the documentation host's fetch ended with
FailureText == ErrorToString(AxiosError(response.failure))

-----------------------------------------------------------------------------
(* C1 *)

\* C1 as claimed: a 404/501 on a candidate that is not the last one of its
\* list (the overview's index.html, search-in-crate's all.html) does not end
\* the operation: no tool call is over with that soft miss as its only fetch.
C1_SoftMissTriesNextCandidate ==
    ~(/\ Done
      /\ call.name \in {"docs_rs_readme", "docs_rs_search_in_crate"}
      /\ SoftMissed
      /\ Len(requests) = 1)

\* C1 as amended: when the documentation-host fetch ends with 404 or 501 the
\* operation (get-overview, get-item, search-in-crate) fails at that point:
\* the handler answers with an error, and that fetch stays the only request.
C1_SoftMissFailsAtOnce ==
    (Done /\ call.name \in DocsTools /\ SoftMissed)
        => (result.kind = "error" /\ thrown # NoError /\ Len(requests) = 1)

C1_Witness ==
    /\ Done
    /\ call.name = "docs_rs_readme"
    /\ response = Rejected("404")
    /\ result.kind = "error"

-----------------------------------------------------------------------------
(* C2 *)

\* C2: when the documentation-host fetch fails with anything but 404/501
\* (time-out, connection error, other status), the operation fails with that
\* failure (its text ends the error message) and no further URL is requested.
C2_FatalFailureAborts ==
    (Done /\ call.name \in DocsTools /\ FatalFailed)
        => /\ result.kind = "error"
           /\ EndsWith(result.message, FailureText)
           /\ EndsWith(thrown.message, FailureText)
           /\ Len(requests) = 1

C2_Witness ==
    /\ Done
    /\ call.name = "docs_rs_get_item"
    /\ response = Rejected("ETIMEDOUT")
    /\ result.kind = "error"
    /\ Len(requests) = 1

-----------------------------------------------------------------------------
(* C3 *)

\* C3 as claimed: when every candidate soft-misses the operation fails with a
\* DocumentNotFoundError whose message names the crate and the version.
C3_AllMissesRaiseDocumentNotFound ==
    (Done /\ call.name \in DocsTools /\ SoftMissed)
        => /\ thrown.name = "DocumentNotFoundError"
           /\ call.arguments.crate_name \in Tokens(thrown.message)
           /\ VersionOf(call.arguments) \in Tokens(thrown.message)

\* what the failure message of a documentation tool names: the crate, or the
\* item path for get-item
FailedToPrefix ==
    CASE call.name = "docs_rs_readme" ->
             <<"Failed to get README for ", call.arguments.crate_name, ": ">>
      [] call.name = "docs_rs_get_item" ->
             <<"Failed to get item documentation for ">> \o call.arguments.item_path \o <<": ">>
      [] call.name = "docs_rs_search_in_crate" ->
             <<"Failed to search items in ", call.arguments.crate_name, ": ">>

\* C3 as amended: when the operation's one URL soft-misses, the operation
\* fails with a plain Error, the same wrapper as for any other failed fetch:
\* its message is "Failed to ... {crate or item path}: " followed by the text
\* of the HTTP failure; it does not name the version, and no payload is returned.
C3_SoftMissRaisesPlainError ==
    (Done /\ call.name \in DocsTools /\ SoftMissed)
        => /\ thrown.name = "Error"
           /\ thrown.message =
                  FailedToPrefix \o <<"AxiosError", ": ", "Request failed with status code ",
                                      response.failure>>
           /\ VersionOf(call.arguments) \notin Tokens(thrown.message)
           /\ result.kind # "payload"

C3_Witness ==
    /\ Done
    /\ call.name = "docs_rs_search_in_crate"
    /\ response = Rejected("501")
    /\ thrown.name = "Error"
    /\ "version" \in DOMAIN call.arguments

-----------------------------------------------------------------------------
(* C4 *)

\* the content the overview's documented selectors give: the first
\* ".rustdoc .docblock", else the first ".rustdoc-main .item-decl"
OverviewContent(page) ==
    IF Len(page.docblock) > 0 THEN page.docblock[1]
    ELSE IF Len(page.altDecl) > 0 THEN page.altDecl[1]
    ELSE <<>>

\* the content extracted from the page the tool call fetched
ExtractedContent ==
    IF call.name = "docs_rs_readme"
    THEN OverviewContent(response.data)
    ELSE ItemContentHtml(response.data)

\* the answer is the non-error text "No documentation content found at {url}"
IsPlaceholder ==
    /\ result.kind = "payload"
    /\ EndsWith(result.text, <<"No documentation content found at ">> \o requests[1].url)

\* C4: for get-overview and get-item, a fetch that succeeded with empty
\* extracted content gives the placeholder text, no successful fetch gives an
\* error, and neither outcome occurs in the other situation.
C4_EmptyVersusNeverFetched ==
    (Done /\ call.name \in {"docs_rs_readme", "docs_rs_get_item"})
        => /\ (FetchSucceeded /\ ExtractedContent = <<>>) => IsPlaceholder
           /\ ~FetchSucceeded => result.kind = "error"
           /\ IsPlaceholder => (FetchSucceeded /\ ExtractedContent = <<>>)
           /\ result.kind = "error" => ~FetchSucceeded

-----------------------------------------------------------------------------
(* C5 *)

\* the registry's per-crate endpoint
RegistryCrateUrl(crate_name) == <<"https://crates.io/api/v1/crates/", crate_name>>

\* C5 as claimed: with the version absent or "latest" the registry's per-crate
\* endpoint is queried first; with any other version no registry request is made.
C5_LatestResolvedByRegistry ==
    (call.name \in DocsTools /\ Len(requests) > 0)
        => IF VersionOf(call.arguments) = "latest"
           THEN requests[1].url = RegistryCrateUrl(call.arguments.crate_name)
           ELSE \A i \in 1..Len(requests) : requests[i].url[1] = "https://docs.rs/"

\* C5 as amended: the version the caller supplies, "latest" included, is used
\* as it is in the documentation URL, an absent version is the literal
\* "latest", and no registry request is made in either case.
C5_VersionUsedVerbatim ==
    (call.name \in DocsTools /\ Len(requests) > 0)
        => /\ \A i \in 1..Len(requests) : requests[i].url[1] = "https://docs.rs/"
           /\ SubSeq(requests[1].url, 2, 5) =
                  <<call.arguments.crate_name, "/",
                    IF "version" \in DOMAIN call.arguments
                    THEN call.arguments.version ELSE "latest",
                    "/">>

C5_Witness ==
    /\ pc = "awaiting"
    /\ call.name = "docs_rs_get_item"
    /\ "version" \notin DOMAIN call.arguments
    /\ requests[1].url[4] = "latest"

-----------------------------------------------------------------------------
(* C6 *)

\* the overview candidates the specification lists, in its priority order
OverviewCandidates(crate_name, version) ==
    << <<"https://docs.rs/", crate_name, "/", version, "/", crate_name, "/", "index.html">>,
       <<"https://docs.rs/", crate_name, "/", version, "/", crate_name, "/">>,
       <<"https://docs.rs/", crate_name, "/", version, "/">> >>

\* C6 as claimed: a crate-overview request asks for index.html, then the
\* directory form, then the bare version directory, in that order: the requests
\* follow the list, and a soft miss is over only when the list is exhausted.
C6_OverviewCandidatesInOrder ==
    call.name = "docs_rs_readme"
        => LET cands == OverviewCandidates(call.arguments.crate_name, VersionOf(call.arguments))
           IN /\ Len(requests) <= 3
              /\ \A i \in 1..Len(requests) : requests[i].url = cands[i]
              /\ (Done /\ SoftMissed) => Len(requests) = 3

\* C6 as amended: a crate-overview request asks for one URL only,
\* {crate}/{version}/{crate}/index.html; the directory form and the bare
\* version directory are never requested, whatever the answer.
C6_OverviewSingleUrl ==
    call.name = "docs_rs_readme"
        => requests =
               << [url |-> <<"https://docs.rs/", call.arguments.crate_name, "/",
                             VersionOf(call.arguments), "/", call.arguments.crate_name,
                             "/", "index.html">>] >>

C6_Witness ==
    /\ Done
    /\ call.name = "docs_rs_readme"
    /\ response = Rejected("501")
    /\ Len(requests) = 1
    /\ requests[1].url[8] = "index.html"

-----------------------------------------------------------------------------
(* C9 *)

\* C9 as claimed: search-in-crate asks for all.html first and, when that
\* soft-misses, for a directory fallback second.
C9_AllHtmlThenDirectory ==
    (Done /\ call.name = "docs_rs_search_in_crate" /\ SoftMissed)
        => /\ Len(requests) = 2
           /\ requests[1].url[8] = "all.html"
           /\ requests[2].url = SubSeq(requests[1].url, 1, 7)

\* C9 as amended: search-in-crate asks for the crate's all.html only; when
\* that request soft-misses the operation fails, and no directory fallback
\* is requested.
C9_AllHtmlOnly ==
    call.name = "docs_rs_search_in_crate"
        => /\ requests =
                  << [url |-> <<"https://docs.rs/", call.arguments.crate_name, "/",
                                VersionOf(call.arguments), "/", call.arguments.crate_name,
                                "/", "all.html">>] >>
           /\ (Done /\ SoftMissed) => result.kind = "error"

C9_Witness ==
    /\ Done
    /\ call.name = "docs_rs_search_in_crate"
    /\ response = Rejected("404")
    /\ requests[1].url[8] = "all.html"
    /\ Len(requests) = 1

-----------------------------------------------------------------------------
(* C7 and C8: item paths as the claims read them *)

\* the names in a path, read character by character: the maximal runs of
\* characters other than ":"
RECURSIVE NamesFrom(_, _, _)
NamesFrom(s, cur, acc) ==
    IF Len(s) = 0 THEN (IF cur = <<>> THEN acc ELSE Append(acc, cur))
    ELSE IF Head(s) = ":"
    THEN NamesFrom(Tail(s), <<>>, IF cur = <<>> THEN acc ELSE Append(acc, cur))
    ELSE NamesFrom(Tail(s), Append(cur, Head(s)), acc)

Names(path) == NamesFrom(path, <<>>, <<>>)

\* names glued by a separator
RECURSIVE Glue(_, _)
Glue(names, sep) ==
    IF Len(names) = 0 THEN <<>>
    ELSE IF Len(names) = 1 THEN names[1]
    ELSE Glue(SubSeq(names, 1, Len(names) - 1), sep) \o sep \o names[Len(names)]

\* the path is one or more names separated by "::"
IsItemPath(path) ==
    Len(Names(path)) >= 1 /\ path = Glue(Names(path), <<":", ":">>)

\* the request getItem has issued for the call's arguments
ItemRequested(kinds) ==
    /\ pc = "awaiting"
    /\ call.name = "docs_rs_get_item"
    /\ call.arguments.item_type \in kinds
    /\ IsItemPath(call.arguments.item_path)

\* C7: for an item kind other than "module" and an item path of one or more
\* "::"-separated names, get-item requests
\* {base}/{crate}/{version}/{modulePath}/{kind}.{itemName}.html, itemName the
\* last name and modulePath the names before it joined by "/".
C7_ItemUrlShape ==
    ItemRequested({"struct", "fn"})
        => LET a == call.arguments
               names == Names(a.item_path)
               itemName == names[Len(names)]
               modulePath == Glue(SubSeq(names, 1, Len(names) - 1), <<"/">>)
           IN requests[1].url =
                  <<"https://docs.rs/", a.crate_name, "/", VersionOf(a), "/">> \o modulePath
                      \o <<"/", a.item_type, ".">> \o itemName \o <<".html">>

\* struct a::b::c is asked for at a/b/struct.c.html
C7_Witness ==
    /\ ItemRequested({"struct"})
    /\ call.arguments.item_path = <<"a", ":", ":", "b", ":", ":", "a">>
    /\ SubSeq(requests[1].url, 6, 13) = <<"a", "/", "b", "/", "struct", ".", "a", ".html">>

\* C8: for item kind "module" get-item requests the item path with every "::"
\* replaced by "/", followed by "/index.html"; the last name stays a
\* directory, and no "::" is left in the URL of any path.
C8_ModuleUrlShape ==
    /\ ItemRequested({"module"})
           => LET a == call.arguments
              IN requests[1].url =
                     <<"https://docs.rs/", a.crate_name, "/", VersionOf(a), "/">>
                         \o Glue(Names(a.item_path), <<"/">>) \o <<"/", "index.html">>
    /\ (pc = "awaiting" /\ call.name = "docs_rs_get_item" /\ call.arguments.item_type = "module")
           => \A i \in 1..(Len(requests[1].url) - 1) :
                  ~(requests[1].url[i] = ":" /\ requests[1].url[i + 1] = ":")

\* module a::b::a is asked for at a/b/a/index.html
C8_Witness ==
    /\ ItemRequested({"module"})
    /\ call.arguments.item_path = <<"a", ":", ":", "b", ":", ":", "a">>
    /\ SubSeq(requests[1].url, 6, 12) = <<"a", "/", "b", "/", "a", "/", "index.html">>

-----------------------------------------------------------------------------
(* C10 *)

\* the markers in their fixed priority, and the kind each stands for
Markers     == <<"struct", "trait", "fn", "enum", "type", "const", "static", "macro">>
MarkerKinds == <<"struct", "trait", "function", "enum", "type", "constant", "static", "macro">>

\* the marker followed by "." occurs somewhere in the href
Occurs(marker, href) ==
    \E i \in 1..(Len(href) - 1) : href[i] = marker /\ href[i + 1] = "."

\* the kind of the first marker, in priority order, that occurs in the href
KindByPriority(href) ==
    LET present == {k \in 1..Len(Markers) : Occurs(Markers[k], href)}
    IN IF present = {} THEN "unknown"
       ELSE MarkerKinds[CHOOSE k \in present : \A j \in present : k <= j]

\* C10: the kind of a link is decided by its href alone: it is the kind of
\* the first marker, in the order struct. trait. fn. enum. type. const.
\* static. macro., that occurs anywhere in the href, and "unknown" when none does.
C10_FirstMarkerWins ==
    pc = "classified" => type = KindByPriority(itemLink)

\* an href with "fn." ahead of "struct." is a struct
C10_Witness ==
    /\ pc = "classified"
    /\ itemLink = <<"fn", ".", "struct", ".">>
    /\ type = "struct"

-----------------------------------------------------------------------------
(* C11 *)

\* a search-in-crate call is over and its all.html was fetched
Searched == Done /\ call.name = "docs_rs_search_in_crate" /\ FetchSucceeded

\* the links of the fetched page, in page order
PageLinks == response.data.links

\* a link's href attribute, empty when the attribute is absent
HrefOf(link) == IF "href" \in DOMAIN link THEN link.href ELSE <<>>

\* a link's display name and the kind its href classifies as
DisplayName(link) == Trim(link.text)
KindOf(link) == ClassifyLink(HrefOf(link))

\* a link the scan skips: no visible text, or no href, after trimming
Skipped(link) == DisplayName(link) = <<>> \/ Trim(HrefOf(link)) = <<>>

\* sub occurs in name when letter case is ignored
ContainsIgnoringCase(name, sub) ==
    \E i \in 0..(Len(name) - Len(sub)) :
        \A j \in 1..Len(sub) : LowerToken(name[i + j]) = LowerToken(sub[j])

\* conditions (a), (b) and (c) of the retention rule
Keeps(link) ==
    LET args == call.arguments
    IN /\ \/ "query" \notin DOMAIN args
          \/ ContainsIgnoringCase(DisplayName(link), args.query)
       /\ \/ "item_type" \notin DOMAIN args
          \/ args.item_type = <<KindOf(link)>>
          \/ ContainsIgnoringCase(DisplayName(link), args.item_type)
       /\ KindOf(link) # "unknown"

\* the visited links that the retention rule keeps, in page order
Kept == SelectSeq(PageLinks, LAMBDA l : ~Skipped(l) /\ Keeps(l))

\* C11: the retained records are, in page order, exactly the visited links
\* for which (a) the query is absent or a case-insensitive substring of the
\* display name, (b) the kind filter is absent, equals the classified kind,
\* or is a case-insensitive substring of the display name, and (c) the kind
\* is not unknown; each record carries the link's display name and kind.
C11_RetainedExactlyWhen ==
    Searched =>
        /\ Len(items) = Len(Kept)
        /\ \A k \in 1..Len(Kept) :
              /\ items[k].name = DisplayName(Kept[k])
              /\ items[k].type = KindOf(Kept[k])

\* query "hashmap" retains the struct named "HashMap" and drops another link
C11_Witness ==
    /\ Searched
    /\ "query" \in DOMAIN call.arguments
    /\ call.arguments.query = <<"hash", "map">>
    /\ Len(PageLinks) = 2
    /\ Len(items) = 1
    /\ items[1].name = <<"Hash", "Map">>
    /\ items[1].type = "struct"

-----------------------------------------------------------------------------
(* C12 *)

\* two records with the same (name, kind) pair
SamePair(a, b) == a.name = b.name /\ a.type = b.type

\* the positions of the retained list holding the first record of their pair
FirstOfPair == {k \in 1..Len(items) : \A j \in 1..(k - 1) : ~SamePair(items[j], items[k])}

\* the place in the output of the record at position k of the retained list
PlaceOf(k) == Cardinality({j \in FirstOfPair : j <= k})

\* C12: the deduplicated list is the retained list cut down to the first
\* record of every (name, kind) pair, link included, in the original order;
\* it holds no two records with the same pair and is never the longer one.
C12_FirstOfEachPairSurvives ==
    Searched =>
        /\ Len(uniqueItems) = Cardinality(FirstOfPair)
        /\ \A k \in FirstOfPair : uniqueItems[PlaceOf(k)] = items[k]
        /\ \A i, j \in 1..Len(uniqueItems) :
              SamePair(uniqueItems[i], uniqueItems[j]) => i = j
        /\ Len(uniqueItems) <= Len(items)

\* two retained records with one (name, kind) pair and different links
C12_Witness ==
    /\ Searched
    /\ Len(items) = 2
    /\ SamePair(items[1], items[2])
    /\ items[1].link # items[2].link
    /\ uniqueItems = <<items[1]>>

-----------------------------------------------------------------------------
(* C13 *)

\* an href that is an absolute URL: a scheme, then "://"
AbsoluteUrl(href) == Len(href) >= 2 /\ href[1] \in {"http", "https"} /\ href[2] = "://"

\* the documentation base of the crate searched, under the version requested
DocBase ==
    <<"https://docs.rs/", call.arguments.crate_name, "/", VersionOf(call.arguments), "/",
      call.arguments.crate_name, "/">>

\* the link a retained record is to carry for its href
EmittedLink(href) == IF AbsoluteUrl(href) THEN href ELSE DocBase \o href

\* C13: every retained record's link is its href unchanged when the href is
\* an absolute URL, and the href appended to the crate's documentation base
\* otherwise; no relative href, "http/struct.Request.html" included, is
\* emitted as it stands.
C13_RelativeHrefsRewritten ==
    Searched =>
        \A k \in 1..Len(Kept) :
            k <= Len(items) => items[k].link = EmittedLink(HrefOf(Kept[k]))

-----------------------------------------------------------------------------
(* C14 *)

\* the links of the page that are not skipped, in page order
Visited == SelectSeq(PageLinks, LAMBDA l : ~Skipped(l))

\* the heading an entry of the output would have for this link
EntryHeading(link) == <<"## ">> \o DisplayName(link) \o <<" (", KindOf(link), ")\n\n">>

\* C14: a link whose text or href is empty after trimming (the href absent,
\* empty or white space only) yields nothing: every retained record stems
\* from a link that is not skipped, there are no more records than such
\* links, and the answer shows no entry for a skipped link.
C14_EmptyLinksSkipped ==
    Searched =>
        /\ Len(items) <= Len(Visited)
        /\ \A k \in 1..Len(items) :
              \E v \in 1..Len(Visited) :
                  /\ items[k].name = DisplayName(Visited[v])
                  /\ items[k].type = KindOf(Visited[v])
                  /\ EndsWith(items[k].link, HrefOf(Visited[v]))
        /\ \A k \in 1..Len(PageLinks) :
              Skipped(PageLinks[k]) => ~Includes(result.text, EntryHeading(PageLinks[k]))

\* a link with a struct href and blank text is skipped beside a retained one
C14_Witness ==
    /\ Searched
    /\ Len(PageLinks) = 2
    /\ Skipped(PageLinks[1])
    /\ KindOf(PageLinks[1]) = "struct"
    /\ Len(items) = 1
    /\ items[1].name = DisplayName(PageLinks[2])

-----------------------------------------------------------------------------
(* C15 *)

\* a search-crates call has issued its registry request
RegistryRequested == call.name = "docs_rs_search_crates" /\ Len(requests) = 1

\* the page size the caller asked for, 10 when none was given
AskedPerPage ==
    IF "per_page" \in DOMAIN call.arguments THEN call.arguments.per_page ELSE 10

\* C15: the per_page sent to the registry is min(per_page, 100), 10 when the
\* caller gave none: never above 100, and any value at or below 100, zero and
\* negative ones included, is sent as given.
C15_PerPageIsMinWith100 ==
    RegistryRequested =>
        LET sent == requests[1].params.per_page
        IN /\ sent <= 100
           /\ AskedPerPage <= 100 => sent = AskedPerPage
           /\ AskedPerPage > 100 => sent = 100

\* per_page = 150 is sent as 100
C15_Witness ==
    /\ RegistryRequested
    /\ AskedPerPage = 150
    /\ requests[1].params.per_page = 100

-----------------------------------------------------------------------------
(* C16 *)

\* a search-crates call is over and the registry answered
RegistryAnswered == Done /\ call.name = "docs_rs_search_crates" /\ FetchSucceeded

\* the position of the n-th occurrence of token tok in s
NthIndex(s, tok, n) ==
    CHOOSE i \in 1..Len(s) :
        s[i] = tok /\ Cardinality({j \in 1..i : s[j] = tok}) = n

\* what the answer shows as the description of its n-th hit: the text from
\* the n-th "**Description:** " to the blank line after it
RenderedDescription(n) ==
    LET s == result.text
        i == NthIndex(s, "**Description:** ", n)
        j == CHOOSE e \in (i + 1)..Len(s) :
                 s[e] = "\n\n" /\ \A m \in (i + 1)..(e - 1) : s[m] # "\n\n"
    IN SubSeq(s, i + 1, j - 1)

\* the registry hit carries no description: the field is absent (or null) or ""
NoDescription(hit) == "description" \notin DOMAIN hit \/ hit.description = <<>>

\* C16: a hit without a description (absent, null or empty) is shown with
\* "No description available"; the description shown for a hit is never
\* empty and never the text "undefined" or "null".
C16_DescriptionPlaceholder ==
    RegistryAnswered =>
        \A n \in 1..Len(response.data.crates) :
            /\ NoDescription(response.data.crates[n])
                  => RenderedDescription(n) = <<"No description available">>
            /\ RenderedDescription(n) \notin { <<>>, <<"undefined">>, <<"null">> }

\* a hit whose description is the empty string is shown with the placeholder
C16_Witness ==
    /\ RegistryAnswered
    /\ Len(response.data.crates) = 1
    /\ "description" \in DOMAIN response.data.crates[1]
    /\ response.data.crates[1].description = <<>>
    /\ RenderedDescription(1) = <<"No description available">>

-----------------------------------------------------------------------------
(* C17 *)

\* the sort keys of the registry's search
SortKeys == {"relevance", "downloads", "recent-downloads", "recent-updates", "new"}

\* C17: the sort key sent to the registry is always one of the five keys,
\* "relevance" when the caller gave none; no other value reaches the registry.
C17_SortKeyFromEnumeration ==
    RegistryRequested => requests[1].params.sort \in SortKeys

-----------------------------------------------------------------------------
(* C18 *)

\* a get-overview call is over and its page was fetched
OverviewFetched == Done /\ call.name = "docs_rs_readme" /\ FetchSucceeded

\* C18: the overview renders the HTML of the first selector that matches,
\* ".rustdoc .docblock" before ".rustdoc-main .item-decl": when the first
\* matches nothing and the second matches, the second one's HTML is rendered.
C18_FirstMatchingSelectorRendered ==
    OverviewFetched =>
        (OverviewContent(response.data) # <<>>
            => result.text = <<"# ", call.arguments.crate_name, " Documentation\n\n">>
                                 \o Turndown(OverviewContent(response.data)))

-----------------------------------------------------------------------------
(* C19 *)

\* a get-item call is over and its page was fetched
ItemFetched == Done /\ call.name = "docs_rs_get_item" /\ FetchSucceeded

\* the inner HTML of the first element of a selection, nothing when none matched
HtmlOfFirst(sel) == IF Len(sel) > 0 THEN sel[1] ELSE <<>>

\* the extraction as the claim words it
ItemExtraction(page) ==
    IF Len(page.mainContent) > 0
    THEN page.mainContent[1]
    ELSE HtmlOfFirst(page.itemDecl)
             \o (IF Len(page.docblock) > 0 THEN page.docblock[1] ELSE HtmlOfFirst(page.altDecl))

\* C19: get-item renders the whole inner HTML of #main-content when that
\* element exists, the legacy selectors adding nothing even when it is empty;
\* without it, the ".rustdoc .item-decl" HTML (if any) followed by the
\* ".rustdoc .docblock" HTML, or by the ".rustdoc-main .item-decl" HTML only
\* when there is no docblock.  An empty extraction gives the placeholder.
C19_ItemExtractionCascade ==
    ItemFetched =>
        LET e == ItemExtraction(response.data)
        IN IF e = <<>>
           THEN IsPlaceholder
           ELSE EndsWith(result.text,
                         <<"**Documentation URL:** ">> \o requests[1].url \o <<"\n\n">> \o Turndown(e))

\* no #main-content and no docblock: the item declaration, then the alternate one
C19_Witness ==
    /\ ItemFetched
    /\ response.data.mainContent = <<>>
    /\ response.data.docblock = <<>>
    /\ response.data.itemDecl = << <<"<pre>decl</pre>">> >>
    /\ response.data.altDecl = << <<"<pre>alt</pre>">> >>
    /\ EndsWith(result.text, <<"[fence rust]", "decl", "[fence]", "[fence rust]", "alt", "[fence]">>)

-----------------------------------------------------------------------------
(* C20 *)

FourOperations ==
    {"docs_rs_search_crates", "docs_rs_readme", "docs_rs_get_item", "docs_rs_search_in_crate"}

\* the fetches succeeded and there is nothing to show
EmptyResult ==
    /\ FetchSucceeded
    /\ CASE call.name = "docs_rs_search_in_crate" -> Len(uniqueItems) = 0
         [] call.name = "docs_rs_search_crates"   -> Len(response.data.crates) = 0
         [] OTHER                                 -> ExtractedContent = <<>>

\* C20: a call of one of the four operations ends with a text payload or with
\* an error, one and not the other, the payload only after the fetch
\* succeeded; an empty result after a successful fetch is a payload, never an
\* error: "No matching items found." for search-in-crate and "No
\* documentation content found at {url}" for an empty extraction.
C20_PayloadOrError ==
    (Done /\ call.name \in FourOperations) =>
        /\ result.kind \in {"payload", "error"}
        /\ result.kind = "payload" <=> thrown = NoError
        /\ result.kind = "payload" <=> FetchSucceeded
        /\ result.kind = "payload" => DOMAIN result = {"kind", "text"}
        /\ result.kind = "error" => "text" \notin DOMAIN result
        /\ EmptyResult =>
              /\ result.kind = "payload"
              /\ call.name = "docs_rs_search_in_crate"
                    => EndsWith(result.text, <<"No matching items found.">>)
              /\ call.name \in {"docs_rs_readme", "docs_rs_get_item"} => IsPlaceholder

-----------------------------------------------------------------------------
(* C21 *)

\* C21: a call naming none of the four tools is answered with the protocol
\* error MethodNotFound, message "Unknown tool: {name}"; InternalError answers
\* only failures of a known tool.
C21_UnknownToolIsMethodNotFound ==
    Done =>
        /\ call.name \notin FourOperations
              => /\ result.kind = "error"
                 /\ result.code = "MethodNotFound"
                 /\ result.message = <<"MCP error ", "MethodNotFound", ": ", "Unknown tool: ", call.name>>
        /\ (result.kind = "error" /\ result.code = "InternalError")
              => call.name \in FourOperations

-----------------------------------------------------------------------------
(* C22 *)

\* the context an operation puts before the cause of its failure
OperationContext ==
    CASE call.name = "docs_rs_search_crates" -> <<"Failed to search crates: ">>
      [] call.name = "docs_rs_readme" ->
             <<"Failed to get README for ", call.arguments.crate_name, ": ">>
      [] call.name = "docs_rs_get_item" ->
             <<"Failed to get item documentation for ">>
                 \o Arg(call.arguments, "item_path", <<"undefined">>) \o <<": ">>
      [] call.name = "docs_rs_search_in_crate" ->
             <<"Failed to search items in ", call.arguments.crate_name, ": ">>

\* the error the failure began with: the rejection of the fetch, or, when no
\* fetch was made, the TypeError of splitting an absent item_path
OriginalCause == IF FetchFailed THEN AxiosError(response.failure) ELSE SplitOfUndefined

\* C22: every failure inside one of the four operations reaches the caller as
\* InternalError with the message "Error executing tool {tool}: Error: Failed
\* to {operation} ...: {original cause}": the handler's context once, the
\* operation's context once, the text of the original cause at the end.
C22_ComposedErrorChain ==
    (Done /\ call.name \in FourOperations /\ result.kind = "error") =>
        /\ result.code = "InternalError"
        /\ result.message =
               <<"MCP error ", "InternalError", ": ", "Error executing tool ", call.name, ": ",
                 "Error", ": ">> \o OperationContext \o ErrorToString(OriginalCause)

-----------------------------------------------------------------------------
(* C23 *)

\* the answer a tool call gets when it is the only one the server runs
AloneResult(c, resp) ==
    HandlerAnswer(c.name,
                  SettleOf(c.name, c.arguments, RequestOf(c.name, c.arguments).url, resp))

\* C23: however the steps of the invocations interleave at their awaits, an
\* invocation that is over has the answer it would have alone with the same
\* upstream response, and has issued the request it would issue alone,
\* whether the other invocations failed, succeeded or never resumed; an
\* invocation still suspended has no answer yet.
C23_InvocationsIndependent ==
    \A i \in Invocations :
        /\ pc[i] = "done"
              => /\ result[i] = AloneResult(call[i], response[i])
                 /\ requests[i] = <<RequestOf(call[i].name, call[i].arguments)>>
        /\ pc[i] = "awaiting"
              => /\ result[i] = NoResult
                 /\ requests[i] = <<RequestOf(call[i].name, call[i].arguments)>>

\* a get-overview that shows its url is over while another call, to another
\* url, is still suspended
C23_Witness ==
    /\ pc[1] = "done"
    /\ call[1].name = "docs_rs_readme"
    /\ response[1] = Fulfilled(BlankPage)
    /\ result[1].kind = "payload"
    /\ pc[2] = "awaiting"
    /\ call[2].name = "docs_rs_get_item"

-----------------------------------------------------------------------------
(* C24 *)

-----------------------------------------------------------------------------
(* C25 *)

\* the kind of item a documented value of the item_type filter names
KindNamed(filter) == IF filter = <<"fn">> THEN "function" ELSE filter[1]

\* the call has a kind filter
Filtered ==
    /\ Searched
    /\ "item_type" \in DOMAIN call.arguments
    /\ call.arguments.item_type # <<>>

\* the link's display name matches the query, if there is one
MatchesQuery(link) ==
    \/ "query" \notin DOMAIN call.arguments
    \/ ContainsIgnoringCase(DisplayName(link), call.arguments.query)

\* C25: with an item_type filter, every link of the index page that is an
\* item of the type the filter names (fn: the functions, struct: the
\* structs, ...) and matches the query is among the records returned.
C25_FilterReturnsItemsOfType ==
    Filtered =>
        \A n \in 1..Len(PageLinks) :
            (/\ ~Skipped(PageLinks[n])
             /\ MatchesQuery(PageLinks[n])
             /\ KindOf(PageLinks[n]) = KindNamed(call.arguments.item_type))
                => \E k \in 1..Len(uniqueItems) :
                       /\ uniqueItems[k].name = DisplayName(PageLinks[n])
                       /\ uniqueItems[k].type = KindOf(PageLinks[n])

-----------------------------------------------------------------------------
(* C26 *)

\* the position of the first occurrence of token tok in s, 0 when there is none
FirstIndex(s, tok) ==
    IF \E i \in 1..Len(s) : s[i] = tok
    THEN CHOOSE i \in 1..Len(s) : s[i] = tok /\ \A j \in 1..(i - 1) : s[j] # tok
    ELSE 0

\* the text shows a URL: as the placeholder's, or as the Documentation URL line
ShowsPlaceholderUrl == FirstIndex(result.text, "No documentation content found at ") > 0
ShowsDocumentationUrl == FirstIndex(result.text, "**Documentation URL:** ") > 0

\* the URL the text shows: what follows the placeholder's words to the end of
\* the text, or what follows "**Documentation URL:** " to the next blank line
ShownUrl ==
    LET s == result.text
        p == FirstIndex(s, "No documentation content found at ")
        d == FirstIndex(s, "**Documentation URL:** ")
        e == CHOOSE n \in (d + 1)..Len(s) : s[n] = "\n\n" /\ \A m \in (d + 1)..(n - 1) : s[m] # "\n\n"
    IN IF p > 0 THEN SubSeq(s, p + 1, Len(s)) ELSE SubSeq(s, d + 1, e - 1)

\* C26: the answers that show a URL (every successful get-item, and the
\* placeholder of get-item and get-overview) show exactly the absolute URL
\* that the call requested, whose fetch succeeded and whose page was read;
\* a successful get-item always shows one.
C26_ShownUrlIsFetchedUrl ==
    (Done /\ call.name \in {"docs_rs_readme", "docs_rs_get_item"} /\ result.kind = "payload") =>
        /\ call.name = "docs_rs_get_item" => (ShowsPlaceholderUrl \/ ShowsDocumentationUrl)
        /\ (ShowsPlaceholderUrl \/ ShowsDocumentationUrl)
              => /\ FetchSucceeded
                 /\ requests = << [url |-> ShownUrl] >>
                 /\ Head(ShownUrl) = "https://docs.rs/"

\* a successful get-item of a nested path showing its Documentation URL
C26_Witness ==
    /\ Done
    /\ call.name = "docs_rs_get_item"
    /\ result.kind = "payload"
    /\ ShowsDocumentationUrl
    /\ ~ShowsPlaceholderUrl
    /\ call.arguments.item_path = <<"a", ":", ":", "b", ":", ":", "c">>
    /\ ShownUrl = requests[1].url

-----------------------------------------------------------------------------
(* C27 *)

\* the requests of the tool call that have not settled yet
Outstanding == Len(requests) - (IF response = NoResponse THEN 0 ELSE 1)

\* C27: a tool call never has more than one HTTP request outstanding: one
\* while it is suspended, none before and none after; a further request could
\* only follow a response, and once a response is a success nothing more is
\* requested.
C27_OneRequestAtATime ==
    /\ Outstanding \in {0, 1}
    /\ Outstanding = 1 <=> pc = "awaiting"
    /\ response # NoResponse => Done
    /\ (Done /\ FetchSucceeded) => Len(requests) = 1

\* a get-item call over after a successful fetch, nothing outstanding
C27_Witness ==
    /\ Done
    /\ call.name = "docs_rs_get_item"
    /\ FetchSucceeded
    /\ Len(requests) = 1
    /\ Outstanding = 0

-----------------------------------------------------------------------------
(* C28 *)

\* C28: within a tool call no URL is requested twice, a failed request is
\* not sent again (the call ends with the failure of its one request), and
\* search-crates sends exactly one request, to the registry, whatever the
\* answer.
C28_NoRetries ==
    /\ \A i, j \in 1..Len(requests) : requests[i].url = requests[j].url => i = j
    /\ (Done /\ FetchFailed) => (Len(requests) = 1 /\ result.kind = "error")
    /\ (Done /\ call.name = "docs_rs_search_crates")
          => /\ Len(requests) = 1
             /\ requests[1].url = <<"https://crates.io/api/v1/crates">>

\* a search-crates call that failed with a server error: one request, no more
C28_Witness ==
    /\ Done
    /\ call.name = "docs_rs_search_crates"
    /\ response = Rejected("500")
    /\ Len(requests) = 1

-----------------------------------------------------------------------------
(* C29 *)

\* C29 as claimed: a tool call that is suspended at its request always
\* completes, with a payload or an error, even if the upstream never answers.
C29_EventuallyCompletes == (pc = "awaiting") ~> (pc = "done")

\* C29 as amended: a suspended tool call completes only by its request
\* settling (an answer, an error status, or a failure the network reports):
\* no timer of the server ends the wait, so with an upstream that never
\* answers the call stays suspended.
C29_CompletesOnlyWhenSettled ==
    [][(pc = "awaiting" /\ pc' # "awaiting") => (pc' = "done" /\ response' # NoResponse)]_vars

\* a get-overview call suspended at its request, nothing received yet
C29_Witness ==
    /\ pc = "awaiting"
    /\ call.name = "docs_rs_readme"
    /\ Len(requests) = 1
    /\ response = NoResponse
    /\ result = NoResult

-----------------------------------------------------------------------------
(* C30 *)

\* the kinds an entry can have
ItemKinds == {"struct", "trait", "function", "enum", "type", "constant", "static", "macro"}

\* the distinct (name, kind) pairs among the links the retention rule keeps
KeptPairs == { <<DisplayName(Kept[k]), KindOf(Kept[k])>> : k \in 1..Len(Kept) }

\* the positions of the text where an entry begins
EntryStarts == {i \in 1..Len(result.text) : result.text[i] = "## "}

\* the kind an entry shows: the token after the first " (" of the entry
EntryKind(i) ==
    LET s == result.text
        j == CHOOSE n \in (i + 1)..Len(s) : s[n] = " (" /\ \A m \in (i + 1)..(n - 1) : s[m] # " ("
    IN s[j + 1]

\* the number N the text gives in "Found N items", as printed
FoundCount == result.text[FirstIndex(result.text, "Found ") + 1]

\* C30: in a search-in-crate payload the N of "Found N items" is the number
\* of entries rendered and the number of distinct (name, kind) pairs among
\* the retained links; "No matching items found." is there exactly when N
\* is 0; and every entry's kind is one of struct, trait, function, enum,
\* type, constant, static, macro.
C30_FoundCountMatchesEntries ==
    Searched =>
        /\ FoundCount = ToString(Cardinality(KeptPairs))
        /\ Cardinality(EntryStarts) = Cardinality(KeptPairs)
        /\ FirstIndex(result.text, "No matching items found.") > 0 <=> KeptPairs = {}
        /\ \A i \in EntryStarts : EntryKind(i) \in ItemKinds

\* two retained links with one (name, kind) pair: "Found 1 items", one entry
C30_Witness ==
    /\ Searched
    /\ Len(Kept) = 2
    /\ Cardinality(KeptPairs) = 1
    /\ FoundCount = "1"
    /\ Cardinality(EntryStarts) = 1

=============================================================================
